---- MODULE Spec2Model ----
(***************************************************************************)
(* Resume classification backend: the /api/predict handler of              *)
(* backend/main.py and the field extractors of backend/utils.py.           *)
(*                                                                         *)
(* Strings are sequences of one-character strings, so that the string      *)
(* operations of the code (lower, title, strip, split, rsplit, substring   *)
(* and regular-expression matching) are computed character by character.   *)
(* Probabilities are integers in 0..ProbUnits (a probability p stands for  *)
(* p / ProbUnits); the suitability confidence is an integer percentage.    *)
(***************************************************************************)
EXTENDS Integers, Sequences, FiniteSets, TLC

\* ------------------------------------------------------------------ bounds
\* A resume text is the concatenation of at most MaxTokens tokens of TextTokens.
MaxTokens == 3
\* The role classifier has at most MaxClasses classes.
MaxClasses == 4
\* The probabilities of one prediction are multiples of 1/ProbUnits summing to 1.
ProbUnits == 10

\* ------------------------------------------------------- characters, strings
LowerLetters ==
    << "a", "b", "c", "d", "e", "f", "g", "h", "i", "j", "k", "l", "m",
       "n", "o", "p", "q", "r", "s", "t", "u", "v", "w", "x", "y", "z" >>

UpperLetters ==
    << "A", "B", "C", "D", "E", "F", "G", "H", "I", "J", "K", "L", "M",
       "N", "O", "P", "Q", "R", "S", "T", "U", "V", "W", "X", "Y", "Z" >>

DigitChars == << "0", "1", "2", "3", "4", "5", "6", "7", "8", "9" >>

Range(f) == {f[i] : i \in DOMAIN f}

LowerSet == Range(LowerLetters)

UpperSet == Range(UpperLetters)

\* \d
DigitSet == Range(DigitChars)

\* \w
WordSet == LowerSet \cup UpperSet \cup DigitSet \cup {"_"}

\* \s, and the characters str.strip() removes
SpaceSet == {" ", "\n", "\t", "\r"}

IsLetter(c) == c \in LowerSet \/ c \in UpperSet

LetterIndex(c) ==
    CHOOSE i \in 1..Len(LowerLetters) : LowerLetters[i] = c \/ UpperLetters[i] = c

LowerChar(c) == IF c \in UpperSet THEN LowerLetters[LetterIndex(c)] ELSE c

UpperChar(c) == IF c \in LowerSet THEN UpperLetters[LetterIndex(c)] ELSE c

Min(S) == CHOOSE x \in S : \A y \in S : x <= y

Max(S) == CHOOSE x \in S : \A y \in S : x >= y

\* str.lower()
str_lower(s) == [i \in 1..Len(s) |-> LowerChar(s[i])]

\* str.title(): a letter is upper-cased when the character before it is not a
\* letter, and lower-cased otherwise
str_title(s) ==
    [i \in 1..Len(s) |->
        IF ~IsLetter(s[i]) THEN s[i]
        ELSE IF i > 1 /\ IsLetter(s[i - 1]) THEN LowerChar(s[i])
        ELSE UpperChar(s[i])]

\* str.strip()
str_strip(s) ==
    LET keep == {i \in 1..Len(s) : s[i] \notin SpaceSet}
    IN  IF keep = {} THEN << >> ELSE SubSeq(s, Min(keep), Max(keep))

\* str.split(sep) for a one-character separator, and re.split('[...]', s):
\* the pieces between the characters of seps, empty pieces included
RECURSIVE str_split(_, _)
str_split(s, seps) ==
    LET at == {i \in 1..Len(s) : s[i] \in seps}
    IN  IF at = {} THEN << s >>
        ELSE << SubSeq(s, 1, Min(at) - 1) >>
                 \o str_split(SubSeq(s, Min(at) + 1, Len(s)), seps)

\* w occurs in s at position i
OccursAt(s, w, i) ==
    /\ i >= 1
    /\ i + Len(w) - 1 <= Len(s)
    /\ SubSeq(s, i, i + Len(w) - 1) = w

\* the Python test `w in s`
Contains(s, w) == \E i \in 1..(Len(s) + 1) : OccursAt(s, w, i)

\* the last index of the longest run of characters of cls that starts at i
\* (i - 1 when s[i] is not in cls): a greedy cls*
RunEnd(s, i, cls) ==
    CHOOSE j \in (i - 1)..Len(s) :
        /\ \A k \in i..j : s[k] \in cls
        /\ j = Len(s) \/ s[j + 1] \notin cls

WordAt(s, i) == i >= 1 /\ i <= Len(s) /\ s[i] \in WordSet

\* the regular expression \b, before the character at position p
Boundary(s, p) == WordAt(s, p - 1) # WordAt(s, p)

\* int() of a string of decimal digits
RECURSIVE str_to_int(_)
str_to_int(s) ==
    IF s = << >> THEN 0
    ELSE 10 * str_to_int(SubSeq(s, 1, Len(s) - 1))
           + ((CHOOSE d \in 1..10 : DigitChars[d] = s[Len(s)]) - 1)

\* ", ".join(parts)
RECURSIVE str_join(_)
str_join(parts) ==
    IF parts = << >> THEN << >>
    ELSE IF Len(parts) = 1 THEN parts[1]
    ELSE parts[1] \o << ",", " " >> \o str_join(Tail(parts))

NotFound == << "N", "o", "t", " ", "F", "o", "u", "n", "d" >>

NoneStr == << "N", "o", "n", "e" >>

\* ---------------------------------------------------------------- utils.py
EmailLocalSet == WordSet \cup {".", "+", "-"}

EmailDomainSet == WordSet \cup {".", "-"}

\* The last index of the match of \b[\w.+-]+@[\w.-]+\.\w+ that starts at i,
\* 0 when there is none.
EmailMatchEnd(s, i) ==
    LET a == RunEnd(s, i, EmailLocalSet)
    IN  IF ~Boundary(s, i) \/ a < i \/ a + 1 > Len(s) THEN 0
        ELSE IF s[a + 1] # "@" THEN 0
        ELSE LET e == RunEnd(s, a + 2, EmailDomainSet)
                 dots == {p \in (a + 3)..e : s[p] = "." /\ WordAt(s, p + 1)}
             IN  IF dots = {} THEN 0
                 ELSE RunEnd(s, Max(dots) + 1, WordSet)

get_email(text) ==
    LET starts == {i \in 1..Len(text) : EmailMatchEnd(text, i) > 0}
    IN  IF starts = {} THEN NotFound
        ELSE SubSeq(text, Min(starts), EmailMatchEnd(text, Min(starts)))

PhoneSepSet == {"-", "."} \cup SpaceSet

HasDigits(s, i, n) ==
    /\ i >= 1
    /\ i + n - 1 <= Len(s)
    /\ \A k \in i..(i + n - 1) : s[k] \in DigitSet

\* positions after an optional separator [-\.\s]?? at p
AfterOptSep(s, p) ==
    {p} \cup (IF p <= Len(s) /\ s[p] \in PhoneSepSet THEN {p + 1} ELSE {})

\* the last indexes of the matches of \d{3}[-\.\s]??\d{4} that start at p
PhoneTailEnds(s, p) ==
    IF ~HasDigits(s, p, 3) THEN {}
    ELSE {q + 3 : q \in {r \in AfterOptSep(s, p + 3) : HasDigits(s, r, 4)}}

\* the last indexes of the matches of the phone pattern that start at i
PhoneEnds(s, i) ==
    LET plain ==
            IF ~HasDigits(s, i, 3) THEN {}
            ELSE UNION {PhoneTailEnds(s, q) : q \in AfterOptSep(s, i + 3)}
        paren ==
            IF /\ i + 4 <= Len(s)
               /\ s[i] = "("
               /\ HasDigits(s, i + 1, 3)
               /\ s[i + 4] = ")"
            THEN PhoneTailEnds(s, RunEnd(s, i + 5, SpaceSet) + 1)
            ELSE {}
    IN  plain \cup paren

get_phone(text) ==
    LET starts == {i \in 1..Len(text) : PhoneEnds(text, i) # {}}
    IN  IF starts = {} THEN NotFound
        ELSE SubSeq(text, Min(starts), Min(PhoneEnds(text, Min(starts))))

\* re.sub(r'([a-z])([A-Z])', r'\1 \2', s)
RECURSIVE sub_lower_upper(_)
sub_lower_upper(s) ==
    IF Len(s) < 2 THEN s
    ELSE IF s[1] \in LowerSet /\ s[2] \in UpperSet
    THEN << s[1], " ", s[2] >> \o sub_lower_upper(SubSeq(s, 3, Len(s)))
    ELSE << s[1] >> \o sub_lower_upper(Tail(s))

get_name(text) ==
    LET lines == str_split(text, {"\n"})
        full == {i \in 1..Len(lines) : str_strip(lines[i]) # << >>}
    IN  IF full = {} THEN NotFound
        ELSE sub_lower_upper(str_title(str_strip(lines[Min(full)])))

degrees ==
    << <<"b", "a", "c", "h", "e", "l", "o", "r">>,
       <<"m", "a", "s", "t", "e", "r">>,
       <<"p", "h", "d">>,
       <<"d", "i", "p", "l", "o", "m", "a">>,
       <<"d", "e", "g", "r", "e", "e">>,
       <<"b", "s", "c">>,
       <<"m", "s", "c">>,
       <<"b", "a">>,
       <<"m", "a">>,
       <<"b", ".", "s", "c">>,
       <<"m", ".", "s", "c">> >>

\* len(sentence) < 200 in get_education, and education[:200] in the response
MaxEducationLen == 200

get_education(text) ==
    LET text_lower == str_lower(text)
        found == {d \in 1..Len(degrees) : Contains(text_lower, degrees[d])}
    IN  IF found = {} THEN NotFound
        ELSE LET degree == degrees[Min(found)]
                 sentences_lower == str_split(text_lower, {".", "\n"})
                 sentences_original == str_split(text, {".", "\n"})
                 hits == {i \in 1..Len(sentences_lower) :
                            /\ Contains(sentences_lower[i], degree)
                            /\ Len(sentences_lower[i]) < MaxEducationLen}
             IN  IF hits = {} THEN NotFound
                 ELSE str_title(str_strip(sentences_original[Min(hits)]))

YearStr == << "y", "e", "a", "r" >>

\* positions after a greedy-with-backtracking \s* at any position of P
AfterSpaces(s, P) == UNION {p..(RunEnd(s, p, SpaceSet) + 1) : p \in P}

\* positions after the optional group (?:-\s*\d+)? at any position of P
AfterRange(s, P) ==
    P \cup UNION {
        UNION {(q + 1)..(RunEnd(s, q, DigitSet) + 1) :
                 q \in AfterSpaces(s, {p + 1})} :
        p \in {r \in P : r <= Len(s) /\ s[r] = "-"}}

\* (\d+)\+?\s*(?:-\s*\d+)?\s*years? matches s from position i
ExperienceMatch(s, i) ==
    LET a == RunEnd(s, i, DigitSet)
        plus == {a + 1} \cup (IF a + 1 <= Len(s) /\ s[a + 1] = "+" THEN {a + 2} ELSE {})
    IN  /\ a >= i
        /\ \E p \in AfterSpaces(s, AfterRange(s, AfterSpaces(s, plus))) :
              OccursAt(s, YearStr, p)

get_experience(text) ==
    LET s == str_lower(text)
        starts == {i \in 1..Len(s) : ExperienceMatch(s, i)}
    IN  IF starts = {} THEN 0
        ELSE str_to_int(SubSeq(s, Min(starts), RunEnd(s, Min(starts), DigitSet)))

keywords ==
    << <<"p", "y", "t", "h", "o", "n">>,
       <<"j", "a", "v", "a">>,
       <<"j", "a", "v", "a", "s", "c", "r", "i", "p", "t">>,
       <<"s", "q", "l">>,
       <<"r">>,
       <<"c", "+", "+">>,
       <<"c", "#">>,
       <<"m", "a", "c", "h", "i", "n", "e", " ", "l", "e", "a", "r", "n", "i", "n", "g">>,
       <<"d", "e", "e", "p", " ", "l", "e", "a", "r", "n", "i", "n", "g">>,
       <<"d", "a", "t", "a", " ", "a", "n", "a", "l", "y", "s", "i", "s">>,
       <<"s", "t", "a", "t", "i", "s", "t", "i", "c", "s">>,
       <<"t", "a", "b", "l", "e", "a", "u">>,
       <<"p", "o", "w", "e", "r", " ", "b", "i">>,
       <<"e", "x", "c", "e", "l">>,
       <<"a", "w", "s">>,
       <<"a", "z", "u", "r", "e">>,
       <<"c", "l", "o", "u", "d">>,
       <<"g", "i", "t">>,
       <<"d", "o", "c", "k", "e", "r">>,
       <<"k", "u", "b", "e", "r", "n", "e", "t", "e", "s">>,
       <<"t", "e", "n", "s", "o", "r", "f", "l", "o", "w">>,
       <<"p", "y", "t", "o", "r", "c", "h">>,
       <<"h", "t", "m", "l">>,
       <<"c", "s", "s">>,
       <<"r", "e", "a", "c", "t">>,
       <<"a", "n", "g", "u", "l", "a", "r">>,
       <<"n", "o", "d", "e", ".", "j", "s">>,
       <<"f", "l", "a", "s", "k">>,
       <<"d", "j", "a", "n", "g", "o">> >>

\* re.search(r'\b' + re.escape(word) + r'\b', s)
KeywordSearch(s, word) ==
    \E i \in 1..Len(s) :
        /\ OccursAt(s, word, i)
        /\ Boundary(s, i)
        /\ Boundary(s, i + Len(word))

\* the subsequence of ks whose indexes are in keep, in the order of ks
RECURSIVE SelectIn(_, _, _)
SelectIn(ks, keep, k) ==
    IF k > Len(ks) THEN << >>
    ELSE (IF k \in keep THEN << ks[k] >> ELSE << >>) \o SelectIn(ks, keep, k + 1)

\* get_skills with the empty string where the code gives "None"
get_skills_no_sentinel(text) ==
    str_join(SelectIn(keywords,
                      {k \in 1..Len(keywords) : KeywordSearch(str_lower(text), keywords[k])},
                      1))

get_skills(text) ==
    LET text_lower == str_lower(text)
        found == SelectIn(keywords,
                          {k \in 1..Len(keywords) : KeywordSearch(text_lower, keywords[k])},
                          1)
    IN  IF found = << >> THEN NoneStr ELSE str_join(found)

extract_resume_info(text) ==
    [ name             |-> get_name(text),
      email            |-> get_email(text),
      phone            |-> get_phone(text),
      education        |-> get_education(text),
      experience_years |-> get_experience(text),
      skills           |-> get_skills(text) ]

\* ------------------------------------------------------------------ main.py
\* role_probabilities.argsort()[-3:]
TopWindow == 3

\* len(top_3_roles) >= 3
MaxTopRoles == 3

\* suitability_confidence >= 0.8, as a percentage
StrongPercent == 80

\* suitability_confidence >= 0.6, as a percentage
GoodPercent == 60

VARIABLES
    pc,                     \* the handler's position
    file,                   \* the upload: [is_pdf, readable, text]
    resume_text,
    candidate_info,
    education,              \* the input of education_encoder.transform
    skills,                 \* the input of skills_vectorizer.transform
    classes_,               \* role_classifier.classes_
    role_specific_models,   \* role name -> classes_ of that role's model
    role_probabilities,
    recommended_role_raw,
    recommended_role,
    role_confidence,
    suitability_prediction,
    suitability_proba,
    suitability_confidence,
    is_suitable,
    top_3_indices,
    top_3_roles,
    recommendation,
    response,               \* << >>, or the one PredictionResponse returned
    errors                  \* the HTTPExceptions raised, in order

vars ==
    << pc, file, resume_text, candidate_info, education, skills, classes_,
       role_specific_models, role_probabilities, recommended_role_raw,
       recommended_role, role_confidence, suitability_prediction,
       suitability_proba, suitability_confidence, is_suitable, top_3_indices,
       top_3_roles, recommendation, response, errors >>

request_vars == << file, classes_, role_specific_models >>

extract_vars == << resume_text, candidate_info, education, skills >>

role_vars ==
    << role_probabilities, recommended_role_raw, recommended_role, role_confidence >>

suitability_vars ==
    << suitability_prediction, suitability_proba, suitability_confidence, is_suitable >>

rank_vars == << top_3_indices, top_3_roles >>

\* raise HTTPException(status_code, detail): the request ends
Raise(status, message, cause) ==
    /\ errors' = Append(errors, [status_code |-> status,
                                 detail      |-> [message |-> message, cause |-> cause]])
    /\ pc' = "done"

\* x.rsplit('_', 1)[0] for an x that contains '_'
rsplit_head(x) ==
    SubSeq(x, 1, Max({i \in 1..Len(x) : x[i] = "_"}) - 1)

\* clean_recommended_role with the separating underscore left on the name
clean_recommended_role_keeps_underscore(raw) ==
    IF Contains(raw, << "_" >>)
    THEN SubSeq(raw, 1, Max({i \in 1..Len(raw) : raw[i] = "_"}))
    ELSE raw

\* main.py 137-140: the recommended role without its suffix
clean_recommended_role(raw) ==
    IF Contains(raw, << "_" >>) THEN rsplit_head(raw) ELSE raw

\* main.py 167-170: the role name of a ranked class
clean_role_name(role_raw) ==
    IF Contains(role_raw, << "_" >>) THEN rsplit_head(role_raw) ELSE role_raw

\* list(xs).index(x)
IndexOf(xs, x) == Min({i \in 1..Len(xs) : xs[i] = x})

\* suitable_label without the lower-casing
suitable_label_case_sensitive(label) ==
    \/ Contains(label, << "s", "e", "l", "e", "c", "t" >>)
    \/ Contains(label, << "h", "i", "r", "e" >>)

\* main.py 157
suitable_label(label) ==
    \/ Contains(str_lower(label), << "s", "e", "l", "e", "c", "t" >>)
    \/ Contains(str_lower(label), << "h", "i", "r", "e" >>)

\* recommendation_text with the tier boundaries exclusive
recommendation_text_exclusive(suitable, confidence) ==
    IF suitable
    THEN IF confidence > StrongPercent THEN "Strong candidate match."
         ELSE IF confidence > GoodPercent THEN "Good candidate match."
         ELSE "Review candidate properly"
    ELSE "Not a good fit"

\* main.py 185-193, the confidence as a percentage
recommendation_text(suitable, confidence) ==
    IF suitable
    THEN IF confidence >= StrongPercent THEN "Strong candidate match."
         ELSE IF confidence >= GoodPercent THEN "Good candidate match."
         ELSE "Review candidate properly"
    ELSE "Not a good fit"

\* The results numpy's argsort may give for probabilities p: every ordering of
\* the indexes by non-decreasing probability. The default sort kind is not
\* stable, so the order of equal probabilities depends on the numpy build.
argsort(p) ==
    {perm \in [1..Len(p) -> 1..Len(p)] :
        /\ \A i, j \in 1..Len(p) : i # j => perm[i] # perm[j]
        /\ \A i \in 1..(Len(p) - 1) : p[perm[i]] <= p[perm[i + 1]]}

\* order[-3:][::-1]
top_indices(order) ==
    LET n == Len(order)
        k == IF n < TopWindow THEN n ELSE TopWindow
    IN  [i \in 1..k |-> order[n + 1 - i]]

\* rank_loop without the seen_roles test
RECURSIVE rank_loop_no_dedup(_, _, _, _, _)
rank_loop_no_dedup(indices, classes, probs, k, top) ==
    IF k > Len(indices) THEN top
    ELSE LET idx == indices[k]
             added == Append(top, [role       |-> clean_role_name(classes[idx]),
                                   confidence |-> probs[idx]])
         IN  IF Len(added) >= MaxTopRoles THEN added
             ELSE rank_loop_no_dedup(indices, classes, probs, k + 1, added)

\* main.py 164-182: the loop over top_3_indices, from its k-th iteration, with
\* top the list built so far (seen_roles is the set of its role names)
RECURSIVE rank_loop(_, _, _, _, _)
rank_loop(indices, classes, probs, k, top) ==
    IF k > Len(indices) THEN top
    ELSE LET idx == indices[k]
             role_name == clean_role_name(classes[idx])
             seen_roles == {top[i].role : i \in 1..Len(top)}
             added == IF role_name \notin seen_roles
                      THEN Append(top, [role |-> role_name, confidence |-> probs[idx]])
                      ELSE top
         IN  IF Len(added) >= MaxTopRoles THEN added
             ELSE rank_loop(indices, classes, probs, k + 1, added)

\* round(x, 0) of the rational num / den, ties to even
RoundDiv(num, den) ==
    LET q == num \div den
        r == num % den
    IN  IF 2 * r < den THEN q
        ELSE IF 2 * r > den THEN q + 1
        ELSE IF q % 2 = 0 THEN q ELSE q + 1

\* round(confidence * 100, 2), in hundredths of a percent, of num / den
percent_2dp(num, den) == RoundDiv(num * 10000, den)

\* s[:n]
Prefix(s, n) == SubSeq(s, 1, IF Len(s) < n THEN Len(s) ELSE n)

\* ---------------------------------------------------------------- actions
\* main.py 95-96
ValidateFile ==
    /\ pc = "validate"
    /\ IF ~file.is_pdf
       THEN Raise(400, "Only PDF files are supported", << >>)
       ELSE /\ pc' = "extract"
            /\ UNCHANGED errors
    /\ UNCHANGED << request_vars, extract_vars, role_vars, suitability_vars,
                    rank_vars, recommendation, response >>

\* main.py 100-101 when extract_text_from_pdf raises (utils.py 105-106)
ReadPdfFails ==
    /\ pc = "extract"
    /\ ~file.readable
    /\ Raise(400, "Error reading PDF: ", << "E", "O", "F" >>)
    /\ UNCHANGED << request_vars, extract_vars, role_vars, suitability_vars,
                    rank_vars, recommendation, response >>

\* main.py 100-104 when no text is extracted
NoText ==
    /\ pc = "extract"
    /\ file.readable
    /\ file.text = << >>
    /\ Raise(400, "Could not extract sufficient text from PDF", << >>)
    /\ UNCHANGED << request_vars, extract_vars, role_vars, suitability_vars,
                    rank_vars, recommendation, response >>

\* main.py 100-129: the text, the candidate's fields and the encoders' inputs
ExtractInfo ==
    /\ pc = "extract"
    /\ file.readable
    /\ file.text # << >>
    /\ resume_text' = file.text
    /\ candidate_info' = extract_resume_info(file.text)
    /\ education' = IF candidate_info'.education # NotFound
                    THEN candidate_info'.education
                    ELSE << "n", "o", "t", " ", "f", "o", "u", "n", "d" >>
    /\ skills' = IF candidate_info'.skills # NoneStr
                 THEN candidate_info'.skills
                 ELSE << >>
    /\ pc' = "predict_role"
    /\ UNCHANGED << request_vars, role_vars, suitability_vars, rank_vars,
                    recommendation, response, errors >>

RECURSIVE SeqSum(_)
SeqSum(p) == IF p = << >> THEN 0 ELSE p[1] + SeqSum(Tail(p))

\* the probability vectors a classifier of n classes may give
ProbabilityVectors(n) == {p \in [1..n -> 0..ProbUnits] : SeqSum(p) = ProbUnits}

\* main.py 132-144: the classifier's label and probabilities
PredictRole ==
    /\ pc = "predict_role"
    /\ \E p \in ProbabilityVectors(Len(classes_)), raw \in 1..Len(classes_) :
          /\ role_probabilities' = p
          /\ recommended_role_raw' = classes_[raw]
          /\ recommended_role' = clean_recommended_role(classes_[raw])
          /\ role_confidence' = p[IndexOf(classes_, classes_[raw])]
    /\ pc' = "select_model"
    /\ UNCHANGED << request_vars, extract_vars, suitability_vars, rank_vars,
                    recommendation, response, errors >>

\* NoRoleModel with the missing model defaulted to a rejection
NoRoleModelDefaults ==
    /\ pc = "select_model"
    /\ recommended_role \notin DOMAIN role_specific_models
    /\ suitability_prediction' = << "r", "e", "j", "e", "c", "t" >>
    /\ suitability_proba' = << 100, 0 >>
    /\ suitability_confidence' = 100
    /\ is_suitable' = FALSE
    /\ pc' = "rank"
    /\ UNCHANGED << request_vars, extract_vars, role_vars, rank_vars,
                    recommendation, response, errors >>

\* main.py 147 raising KeyError, caught at 213-214
NoRoleModel ==
    /\ pc = "select_model"
    /\ recommended_role \notin DOMAIN role_specific_models
    /\ Raise(500, "Error processing resume: ", << "'" >> \o recommended_role \o << "'" >>)
    /\ UNCHANGED << request_vars, extract_vars, role_vars, suitability_vars,
                    rank_vars, recommendation, response >>

\* main.py 147-157: the role's model decides, its first class having
\* probability c percent for some c of Percents
PredictSuitability(Percents) ==
    /\ pc = "select_model"
    /\ recommended_role \in DOMAIN role_specific_models
    /\ LET role_model == role_specific_models[recommended_role]
       IN  \E c \in Percents, predicted \in 1..Len(role_model) :
              LET proba == << c, 100 - c >>
                  predicted_idx == IndexOf(role_model, role_model[predicted])
              IN  /\ suitability_prediction' = role_model[predicted]
                  /\ suitability_proba' = proba
                  /\ suitability_confidence' = proba[predicted_idx]
                  /\ is_suitable' = suitable_label(role_model[predicted])
    /\ pc' = "rank"
    /\ UNCHANGED << request_vars, extract_vars, role_vars, rank_vars,
                    recommendation, response, errors >>

\* main.py 160-182
RankRoles ==
    /\ pc = "rank"
    /\ \E order \in argsort(role_probabilities) :
          /\ top_3_indices' = top_indices(order)
          /\ top_3_roles' = rank_loop(top_3_indices', classes_, role_probabilities,
                                      1, << >>)
    /\ pc' = "compose"
    /\ UNCHANGED << request_vars, extract_vars, role_vars, suitability_vars,
                    recommendation, response, errors >>

\* main.py 185-209
Compose ==
    /\ pc = "compose"
    /\ recommendation' = recommendation_text(is_suitable, suitability_confidence)
    /\ response' =
          << [ candidate_name         |-> candidate_info.name,
               email                  |-> candidate_info.email,
               phone                  |-> candidate_info.phone,
               education              |-> Prefix(candidate_info.education, MaxEducationLen),
               experience_years       |-> candidate_info.experience_years,
               skills                 |-> candidate_info.skills,
               is_suitable            |-> is_suitable,
               suitability_confidence |-> percent_2dp(suitability_confidence, 100),
               recommended_role       |-> recommended_role,
               role_confidence        |-> percent_2dp(role_confidence, ProbUnits),
               top_3_roles            |-> top_3_roles,
               recommendation         |-> recommendation' ] >>
    /\ pc' = "done"
    /\ UNCHANGED << request_vars, extract_vars, role_vars, suitability_vars,
                    rank_vars, errors >>

\* ------------------------------------------------------------ specifications
\* The pieces the resume texts of SpecExtract are built from.
TextTokens ==
    << <<"c", "+", "+">>,
       <<"c", "#">>,
       <<"r">>,
       <<" ">>,
       <<"\n">>,
       <<"x">>,
       <<"a", "B">>,
       <<"b", "a">>,
       <<"a", "@", "b", ".", "c">>,
       <<"5", " ", "y", "e", "a", "r", "s">>,
       <<"5", "5", "5", "-", "1", "2", "3", "-", "4", "5", "6", "7">>,
       <<"j", "a", "v", "a">> >>

RECURSIVE Concat(_)
Concat(parts) == IF parts = << >> THEN << >> ELSE parts[1] \o Concat(Tail(parts))

\* every concatenation of at most MaxTokens tokens
TokenTexts ==
    UNION {{Concat([i \in 1..n |-> TextTokens[choice[i]]]) :
               choice \in [1..n -> 1..Len(TextTokens)]} : n \in 0..MaxTokens}

\* a short resume: a name line and a skills line
ShortResume == << "J", "o", "\n", "s", "q", "l" >>

\* the resume of the specification's round-trip scenario
SampleResume ==
    <<"J", "o", "h", "n", " ", "S", "m", "i", "t", "h", "\n",
       "j", "o", "h", "n", ".", "s", "m", "i", "t", "h", "@", "e", "m", "a", "i", "l", ".", "c", "o", "m", "\n",
       "5", "5", "5", "-", "1", "2", "3", "-", "4", "5", "6", "7", "\n",
       "B", "a", "c", "h", "e", "l", "o", "r", " ", "o", "f", " ", "S", "c", "i", "e", "n", "c", "e", " ", "i", "n", " ", "C", "o", "m", "p", "u", "t", "e", "r", " ", "S", "c", "i", "e", "n", "c", "e", ".", "\n",
       "5", " ", "y", "e", "a", "r", "s", " ", "e", "x", "p", "e", "r", "i", "e", "n", "c", "e", " ", "i", "n", " ", "p", "y", "t", "h", "o", "n", ",", " ", "s", "q", "l", ",", " ", "a", "w", "s", ".">>

\* the class labels of the role classifiers, in the sorted order of classes_
RoleLabels ==
    << <<"A", "_", "B", "_", "s", "e", "l", "e", "c", "t">>,
       <<"A", "_", "r", "e", "j", "e", "c", "t">>,
       <<"A", "_", "s", "e", "l", "e", "c", "t">>,
       <<"B", "_", "s", "e", "l", "e", "c", "t">>,
       <<"C">> >>

\* the classes_ of the specification's ranking scenario (a stub classifier)
ScenarioClasses ==
    << <<"A", "_", "s", "e", "l", "e", "c", "t">>,
       <<"A", "_", "r", "e", "j", "e", "c", "t">>,
       <<"B", "_", "s", "e", "l", "e", "c", "t">> >>

\* every classes_ of at most MaxClasses labels
ClassLists ==
    {SelectIn(RoleLabels, S, 1) :
        S \in {T \in SUBSET (1..Len(RoleLabels)) : T # {} /\ Cardinality(T) <= MaxClasses}}
    \cup {ScenarioClasses}

\* the roles that have a role-specific model
ModelRoles == {<< "A" >>, << "B" >>, << "A", "_", "B" >>}

\* classes_ of the role-specific models
SuitabilityClasses ==
    { << <<"r", "e", "j", "e", "c", "t">>, <<"s", "e", "l", "e", "c", "t">> >>,
      << <<"R", "e", "j", "e", "c", "t">>, <<"S", "e", "l", "e", "c", "t">> >>,
      << <<"H", "I", "R", "E">>, <<"N", "O">> >>,
      << <<"N", "o", " ", "H", "i", "r", "e">>, <<"Y", "e", "s">> >>,
      << <<"0">>, <<"1">> >>,
      << <<"d", "e", "s", "e", "l", "e", "c", "t", "e", "d">>, <<"f", "i", "r", "e">> >>,
      << <<"f", "a", "i", "l">>, <<"p", "a", "s", "s">> >>,
      << <<"R", "e", "j", "e", "c", "t", "e", "d">>, <<"S", "h", "o", "r", "t", "l", "i", "s", "t", "e", "d">> >> }

SelectReject == << <<"r", "e", "j", "e", "c", "t">>, <<"s", "e", "l", "e", "c", "t">> >>

Files(texts) ==
    {[is_pdf |-> FALSE, readable |-> TRUE, text |-> << >>],
     [is_pdf |-> TRUE, readable |-> FALSE, text |-> << >>]}
    \cup {[is_pdf |-> TRUE, readable |-> TRUE, text |-> x] : x \in texts}

\* The state when a request arrives: the upload and the artifacts loaded at
\* startup (main.py 46-56); nothing is computed yet.
InitWith(texts, classLists, suitabilityClasses) ==
    /\ pc = "validate"
    /\ file \in Files(texts)
    /\ classes_ \in classLists
    /\ role_specific_models \in
          {[r \in ModelRoles |-> c] : c \in suitabilityClasses}
    /\ resume_text = << >>
    /\ candidate_info = [name |-> << >>, email |-> << >>, phone |-> << >>,
                         education |-> << >>, experience_years |-> 0,
                         skills |-> << >>]
    /\ education = << >>
    /\ skills = << >>
    /\ role_probabilities = << >>
    /\ recommended_role_raw = << >>
    /\ recommended_role = << >>
    /\ role_confidence = 0
    /\ suitability_prediction = << >>
    /\ suitability_proba = << >>
    /\ suitability_confidence = 0
    /\ is_suitable = FALSE
    /\ top_3_indices = << >>
    /\ top_3_roles = << >>
    /\ recommendation = ""
    /\ response = << >>
    /\ errors = << >>

\* Spec: every role classifier of the bounds, the suitability model giving a
\* few probabilities around the tier boundaries.
Init == InitWith({<< >>, ShortResume}, ClassLists, {SelectReject})

Next ==
    \/ ValidateFile
    \/ ReadPdfFails
    \/ NoText
    \/ ExtractInfo
    \/ PredictRole
    \/ NoRoleModel
    \/ PredictSuitability({20, 40})
    \/ RankRoles
    \/ Compose

Spec == Init /\ [][Next]_vars

\* SpecSuitability: one role classifier, every suitability label and every
\* percentage.
InitSuitability ==
    InitWith({<< >>, ShortResume}, {SelectIn(RoleLabels, {3, 5}, 1)}, SuitabilityClasses)

NextSuitability ==
    \/ ValidateFile
    \/ ReadPdfFails
    \/ NoText
    \/ ExtractInfo
    \/ PredictRole
    \/ NoRoleModel
    \/ PredictSuitability(0..100)
    \/ RankRoles
    \/ Compose

SpecSuitability == InitSuitability /\ [][NextSuitability]_vars

\* SpecExtract: the handler up to the extraction of the candidate's fields, for
\* every text of the bounds.
InitExtract ==
    InitWith(TokenTexts \cup {SampleResume}, {SelectIn(RoleLabels, {2, 3, 5}, 1)}, {SelectReject})

NextExtract ==
    \/ ValidateFile
    \/ ReadPdfFails
    \/ NoText
    \/ ExtractInfo

SpecExtract == InitExtract /\ [][NextExtract]_vars

\* -------------------------------------------------------------------- claims
Responded == pc = "done" /\ response # << >>

Ranked == pc \in {"compose", "done"} /\ role_probabilities # << >>

\* the distinct role names of the classifier's classes
RoleNames == {clean_role_name(classes_[k]) : k \in 1..Len(classes_)}

\* the first class, in classes_ order, of maximal probability
FirstArgmax ==
    Min({k \in 1..Len(classes_) :
            \A j \in 1..Len(classes_) : role_probabilities[j] <= role_probabilities[k]})

\* C1: top_3_roles is the result of walking all the classes by descending
\* probability and keeping the first occurrence of each role name until 3 are
\* kept, so that it has fewer than 3 entries only if the classifier has fewer
\* than 3 distinct role names.
C1_TopThreeWalksAllClasses ==
    Responded =>
        LET top == response[1].top_3_roles
            n == Len(classes_)
        IN  /\ \E order \in argsort(role_probabilities) :
                  top = rank_loop([i \in 1..n |-> order[n + 1 - i]], classes_,
                                  role_probabilities, 1, << >>)
            /\ Len(top) < 3 => Cardinality(RoleNames) < 3

\* C2: top_3_roles holds no role name twice, has at most 3 entries, its
\* confidences never increase, and each entry carries the highest probability
\* among the raw labels of its role; classes [A_select, A_reject, B_select]
\* with probabilities [0.5, 0.3, 0.2] give exactly [(A, 0.5), (B, 0.2)].
C2_TopThreeShape ==
    Responded =>
        LET top == response[1].top_3_roles
        IN  /\ Len(top) <= 3
            /\ \A i, j \in 1..Len(top) : i # j => top[i].role # top[j].role
            /\ \A i, j \in 1..Len(top) : i < j => top[i].confidence >= top[j].confidence
            /\ \A i \in 1..Len(top) :
                  /\ top[i].role \in RoleNames
                  /\ top[i].confidence =
                        Max({role_probabilities[k] : k \in
                               {c \in 1..Len(classes_) :
                                   clean_role_name(classes_[c]) = top[i].role}})
            /\ ( /\ classes_ = ScenarioClasses
                 /\ 10 * role_probabilities[1] = 5 * ProbUnits
                 /\ 10 * role_probabilities[2] = 3 * ProbUnits
                 /\ 10 * role_probabilities[3] = 2 * ProbUnits )
               => top = << [role |-> << "A" >>, confidence |-> role_probabilities[1]],
                           [role |-> << "B" >>, confidence |-> role_probabilities[3]] >>

\* a response to the scenario's classifier and probabilities, where role A
\* absorbs both its variants
C2_Witness ==
    /\ Responded
    /\ classes_ = ScenarioClasses
    /\ 10 * role_probabilities[1] = 5 * ProbUnits
    /\ 10 * role_probabilities[2] = 3 * ProbUnits
    /\ Len(response[1].top_3_roles) = 2

\* C3: of two classes of equal probability, the one that comes earlier in
\* classes_ is ranked before the later one, and is the one in the ranking when
\* only one of them is.
C3_TiesKeepClassOrder ==
    Ranked =>
        \A i, j \in 1..Len(classes_) :
            ( /\ i < j
              /\ role_probabilities[i] = role_probabilities[j]
              /\ \E b \in 1..Len(top_3_indices) : top_3_indices[b] = j )
            => \E a, b \in 1..Len(top_3_indices) :
                  /\ top_3_indices[a] = i
                  /\ top_3_indices[b] = j
                  /\ a < b

\* C4: when the recommended role has no role-specific model the request ends
\* at the lookup with exactly one error, of status 500 and carrying the
\* missing role, with no response, no suitability decision and no ranking.
C4_MissingRoleModelIsOneError ==
    ( /\ recommended_role_raw # << >>
      /\ recommended_role \notin DOMAIN role_specific_models )
    => /\ pc \in {"select_model", "done"}
       /\ response = << >>
       /\ suitability_prediction = << >>
       /\ top_3_roles = << >>
       /\ recommendation = ""
       /\ pc = "done" =>
             /\ Len(errors) = 1
             /\ errors[1].status_code = 500
             /\ errors[1].detail.message = "Error processing resume: "
             /\ Contains(errors[1].detail.cause, recommended_role)

\* a request ended by the missing model of role C
C4_Witness ==
    /\ pc = "done"
    /\ recommended_role = << "C" >>
    /\ recommended_role \notin DOMAIN role_specific_models
    /\ Len(errors) = 1

\* C5: the recommendation is decided by is_suitable and the suitability
\* confidence alone: suitable gives Strong from 80 percent, Good from 60 to
\* below 80, Review below 60; unsuitable gives "Not a good fit" always.
C5_RecommendationTiers ==
    Responded =>
        LET r == response[1]
            c == suitability_confidence
        IN  /\ (r.is_suitable /\ c >= 80)
               => r.recommendation = "Strong candidate match."
            /\ (r.is_suitable /\ c >= 60 /\ c < 80)
               => r.recommendation = "Good candidate match."
            /\ (r.is_suitable /\ c < 60)
               => r.recommendation = "Review candidate properly"
            /\ ~r.is_suitable => r.recommendation = "Not a good fit"
            /\ r.suitability_confidence = 100 * c

\* a suitable candidate at exactly 80 percent
C5_Witness ==
    /\ Responded
    /\ response[1].is_suitable
    /\ suitability_confidence = 80
    /\ response[1].recommendation = "Strong candidate match."

\* the text holds nothing the extractors recognize: no match of the email,
\* phone, skill keyword or "years" patterns, and no degree keyword
NothingRecognizable(text) ==
    /\ \A i \in 1..Len(text) : EmailMatchEnd(text, i) = 0
    /\ \A i \in 1..Len(text) : PhoneEnds(text, i) = {}
    /\ \A d \in 1..Len(degrees) : ~Contains(str_lower(text), degrees[d])
    /\ \A k \in 1..Len(keywords) : ~KeywordSearch(str_lower(text), keywords[k])
    /\ \A i \in 1..Len(text) : ~ExperienceMatch(str_lower(text), i)

Extracted == pc = "predict_role"

\* the lines of the text that hold a character other than white space
NonBlankLines(text) ==
    LET lines == str_split(text, {"\n"})
    IN  {i \in 1..Len(lines) : \E k \in 1..Len(lines[i]) : lines[i][k] \notin SpaceSet}

\* C6 as stated: a text with nothing recognizable gives the six sentinel
\* defaults, the name "Not Found" included.
C6_AllSentinels ==
    (Extracted /\ NothingRecognizable(resume_text))
    => candidate_info =
          [ name |-> NotFound, email |-> NotFound, phone |-> NotFound,
            education |-> NotFound, experience_years |-> 0, skills |-> NoneStr ]

\* C6 as amended: a text with nothing recognizable gives the sentinel defaults
\* of email, phone, education, experience_years and skills; the name is
\* "Not Found" only when the text has no non-blank line, and is otherwise the
\* first non-blank line, stripped and in title case.
C6_SentinelsExceptName ==
    (Extracted /\ NothingRecognizable(resume_text))
    => /\ candidate_info.email = NotFound
       /\ candidate_info.phone = NotFound
       /\ candidate_info.education = NotFound
       /\ candidate_info.experience_years = 0
       /\ candidate_info.skills = NoneStr
       /\ NonBlankLines(resume_text) = {} => candidate_info.name = NotFound
       /\ NonBlankLines(resume_text) # {} =>
             LET line == str_split(resume_text, {"\n"})[Min(NonBlankLines(resume_text))]
                 name == candidate_info.name
             IN  /\ name # << >>
                 /\ name[1] \notin SpaceSet /\ name[Len(name)] \notin SpaceSet
                 /\ str_lower(name) = str_lower(str_strip(line))
                 /\ \A k \in 1..Len(name) :
                       name[k] \in UpperSet <=>
                          (IsLetter(name[k]) /\ (k = 1 \/ ~IsLetter(name[k - 1])))

\* a text with nothing recognizable whose name is its first line, not the
\* sentinel
C6_Witness ==
    /\ Extracted
    /\ NothingRecognizable(resume_text)
    /\ candidate_info.name = << "X" >>
    /\ candidate_info.skills = NoneStr

\* C7 as stated: normalizing a role name that is the result of a
\* normalization returns it unchanged.
C7_NormalizationIdempotent ==
    recommended_role_raw # << >> =>
        clean_recommended_role(recommended_role) = recommended_role

Underscores(x) == {i \in 1..Len(x) : x[i] = "_"}

\* C7 as amended: a label with no underscore is its own role name, and the
\* role name of a label with exactly one underscore is the part before the
\* underscore, which normalization returns unchanged.
C7_NormalizationOfPlainNames ==
    recommended_role_raw # << >> =>
        /\ Underscores(recommended_role_raw) = {} =>
              recommended_role = recommended_role_raw
        /\ Cardinality(Underscores(recommended_role_raw)) = 1 =>
              /\ recommended_role \o << "_" >> =
                    SubSeq(recommended_role_raw, 1, Len(recommended_role) + 1)
              /\ Underscores(recommended_role) = {}
        /\ Cardinality(Underscores(recommended_role_raw)) <= 1 =>
              clean_recommended_role(recommended_role) = recommended_role

\* the label A_select normalized to A
C7_Witness ==
    /\ recommended_role_raw = << "A", "_", "s", "e", "l", "e", "c", "t" >>
    /\ recommended_role = << "A" >>

\* a whole-word occurrence of w in s: w with no word character before or after
WholeWordOccurs(s, w) ==
    \E i \in 1..Len(s) :
        /\ OccursAt(s, w, i)
        /\ ~WordAt(s, i - 1)
        /\ ~WordAt(s, i + Len(w))

\* C8: skills is the list of the keywords that occur in the text as whole
\* words, case-insensitively, joined by ", " in keyword-list order, and "None"
\* iff there is none; for every keyword, 'c++' and 'c#' included.
C8_SkillsAreWholeWordKeywords ==
    Extracted =>
        LET occurring ==
                SelectIn(keywords,
                         {k \in 1..Len(keywords) :
                             WholeWordOccurs(str_lower(resume_text), keywords[k])},
                         1)
        IN  candidate_info.skills =
                (IF occurring = << >> THEN NoneStr ELSE str_join(occurring))

\* C9: is_suitable is true iff the lower-cased suitability label contains
\* "select" or "hire".
C9_SuitableIffSelectOrHire ==
    Responded =>
        LET label == str_lower(suitability_prediction)
        IN  response[1].is_suitable <=>
                \/ \E i \in 1..Len(label) :
                      OccursAt(label, << "s", "e", "l", "e", "c", "t" >>, i)
                \/ \E i \in 1..Len(label) :
                      OccursAt(label, << "h", "i", "r", "e" >>, i)

\* a label that is suitable only case-insensitively
C9_Witness ==
    /\ Responded
    /\ suitability_prediction = << "H", "I", "R", "E" >>
    /\ response[1].is_suitable

\* C10: when the predicted label is the first class of maximal probability,
\* the first entry of top_3_roles is the recommended role with the predicted
\* label's probability, ties for the maximum included.
C10_FirstRankedIsRecommended ==
    (Responded /\ recommended_role_raw = classes_[FirstArgmax])
    => /\ response[1].top_3_roles # << >>
       /\ response[1].top_3_roles[1].role = response[1].recommended_role
       /\ response[1].top_3_roles[1].confidence = role_confidence


====
